---- MODULE Spec2Model ----
(***************************************************************************)
(* Cafeteria Management System (src/streamlit_app.py).                     *)
(*                                                                         *)
(* The program is a Streamlit script: every user event (a button click, a  *)
(* changed number input) runs the script once from top to bottom against   *)
(* st.session_state.  One action below is one such run, for the widget     *)
(* that fired.  Widgets are identified by their key (qty_<idx>,            *)
(* remove_<idx>), so an event may name a widget that the current run does  *)
(* not render any more (a second click that arrives after the first one    *)
(* already changed the cart); the run then simply never reaches the        *)
(* handler.  outcome is what the run did and showed: the st.success /      *)
(* st.error / st.warning / st.info it reached and the rerun it asked for.  *)
(*                                                                         *)
(* Money is held in paise (1/100 rupee) so that the float arithmetic of    *)
(* the script (Price * quantity, total * 0.10, total * 0.05) is exact      *)
(* integer arithmetic in the model; every price used is a multiple of ten  *)
(* rupees, for which the script's floats are exact to the paisa as well.   *)
(* An order's Timestamp, Instructions and Pickup Time are free inputs that *)
(* no later code reads; they are left out of the order record.             *)
(***************************************************************************)
EXTENDS Integers, Sequences, FiniteSets, TLC

VARIABLES menu_items, orders, order_id_counter, cart, outcome

vars == <<menu_items, orders, order_id_counter, cart, outcome>>

(***************************************************************************)
(* Bounds of the model.                                                    *)
(***************************************************************************)
\* lines held by the session at one time (cart lines plus lines of orders)
MaxLines == 2
\* orders placed in one session
MaxOrders == 2

\* cart lines of a cart handed to the pricing functions (SpecPricing)
MaxCartLen == 3

\* quantities the user types into a number input (min_value=1)
Quantities == {1, 2}
\* position of the select box the user picks: the second option
SelectPositions == {2}

(***************************************************************************)
(* Data.                                                                   *)
(***************************************************************************)
Item(i, n, c, p, a) ==
    [id |-> i, name |-> n, category |-> c, price |-> p, available |-> a]

InitialMenu ==
    << Item(1, "Coffee", "Beverage", 5000, TRUE),
       Item(2, "Tea", "Beverage", 4000, TRUE),
       Item(3, "Sandwich", "Snack", 12000, TRUE),
       Item(4, "Salad", "Meal", 15000, TRUE),
       Item(5, "Pizza Slice", "Meal", 10000, TRUE),
       Item(6, "Burger", "Meal", 18000, FALSE),
       Item(7, "Fries", "Side", 7000, TRUE),
       Item(8, "Juice", "Beverage", 6000, TRUE) >>

Statuses == {"Pending", "Preparing", "Ready", "Completed", "Cancelled"}

\* Lists the user can leave in the menu editor before pressing Save:
\*  1 the initial menu again;
\*  2 Coffee repriced, Tea deleted, a second available row also named Coffee;
\*  3 a row whose Item ID repeats another row's;
\*  4 a second row whose name was left empty;
\*  5 nothing available.
EditedLists ==
    << InitialMenu,
       << Item(1, "Coffee", "Beverage", 30000, TRUE),
          Item(9, "Coffee", "Beverage", 12000, TRUE) >>,
       << Item(1, "Coffee", "Beverage", 5000, TRUE),
          Item(1, "Mocha", "Beverage", 9000, TRUE) >>,
       << Item(1, "Coffee", "Beverage", 5000, TRUE),
          Item(4, "", "Meal", 15000, TRUE) >>,
       << Item(1, "Coffee", "Beverage", 5000, FALSE) >> >>

(***************************************************************************)
(* Helper functions of the script.                                         *)
(***************************************************************************)
RECURSIVE AvailableRows(_)
\* df[df['Available'] == True]: the available rows of df, in order
AvailableRows(df) ==
    IF df = <<>> THEN <<>>
    ELSE IF Head(df).available = TRUE THEN <<Head(df)>> \o AvailableRows(Tail(df))
         ELSE AvailableRows(Tail(df))

get_available_menu == AvailableRows(menu_items)

RECURSIVE RowsNamed(_, _)
\* df[df['Name'] == name]: the rows of df with that name, in order
RowsNamed(df, name) ==
    IF df = <<>> THEN <<>>
    ELSE IF Head(df).name = name THEN <<Head(df)>> \o RowsNamed(Tail(df), name)
         ELSE RowsNamed(Tail(df), name)

RECURSIVE SumSubtotal(_)
\* cart_df['Subtotal'].sum()
SumSubtotal(cart_df) ==
    IF cart_df = <<>> THEN 0
    ELSE Head(cart_df).subtotal + SumSubtotal(Tail(cart_df))

RECURSIVE SumQuantity(_)
SumQuantity(cart_df) ==
    IF cart_df = <<>> THEN 0
    ELSE Head(cart_df).quantity + SumQuantity(Tail(cart_df))

\* the 10% tier tested with >= instead of >
calculate_total_savings_ge(cart_df) ==
    LET total_amount == SumSubtotal(cart_df)
    IN  IF total_amount >= 50000 THEN (total_amount * 10) \div 100
        ELSE IF Len(cart_df) >= 3 THEN (total_amount * 5) \div 100
        ELSE 0

calculate_total_savings(cart_df) ==
    LET total_amount == SumSubtotal(cart_df)
    IN  IF total_amount > 50000 THEN (total_amount * 10) \div 100
        ELSE IF Len(cart_df) >= 3 THEN (total_amount * 5) \div 100
        ELSE 0

get_estimated_time == 10 + SumQuantity(cart) * 2

final_amount(cart_df) == SumSubtotal(cart_df) - calculate_total_savings(cart_df)

\* available_menu_df.empty
available_menu_empty ==
    \A i \in 1..Len(menu_items) : menu_items[i].available # TRUE

\* available_menu_df[available_menu_df['Name'] == selected_item_name].iloc[0]
item_details(available_menu_df, selected_item_name) ==
    Head(RowsNamed(available_menu_df, selected_item_name))

\* the dict appended to the cart by Add to Cart
cart_line(details, selected_item_name, quantity) ==
    [id |-> details.id, name |-> selected_item_name, price |-> details.price,
     quantity |-> quantity, subtotal |-> details.price * quantity]

\* the quantity is stored but the subtotal is not recomputed
edited_line_stale(item, new_qty) == [item EXCEPT !.quantity = new_qty]

\* the subtotal is recomputed from the catalog's current price of the item
edited_line_live(item, new_qty) ==
    LET rows == {i \in 1..Len(menu_items) : menu_items[i].id = item.id}
        price == IF rows = {} THEN item.price
                 ELSE menu_items[CHOOSE i \in rows : TRUE].price
    IN  [item EXCEPT !.quantity = new_qty, !.subtotal = new_qty * price]

\* the cart line after its quantity input changed to new_qty
edited_line(item, new_qty) ==
    [item EXCEPT !.quantity = new_qty, !.subtotal = new_qty * item.price]

\* the order total is the subtotal, the discount forgotten
new_order_gross(order_id, cart_df) ==
    [id |-> order_id, items |-> cart_df, total |-> SumSubtotal(cart_df),
     status |-> "Pending"]

\* the row appended to the orders frame by Place Order
new_order(order_id, cart_df) ==
    [id |-> order_id, items |-> cart_df, total |-> final_amount(cart_df),
     status |-> "Pending"]

\* every row of the frame is selected once the id is found
order_index_all(selected_order_id_update) ==
    IF \E i \in 1..Len(orders) : orders[i].id = selected_order_id_update
    THEN 1..Len(orders) ELSE {}

\* orders[orders['Order ID'] == selected].index
order_index(selected_order_id_update) ==
    {i \in 1..Len(orders) : orders[i].id = selected_order_id_update}

\* the Name column is tested instead of the Item ID column
HasDuplicateIds_names(edited_df) ==
    \E i, j \in 1..Len(edited_df) : i < j /\ edited_df[i].name = edited_df[j].name

\* edited_df['Item ID'].duplicated().any()
HasDuplicateIds(edited_df) ==
    \E i, j \in 1..Len(edited_df) : i < j /\ edited_df[i].id = edited_df[j].id

\* list.pop(idx), idx counted from 0
Pop(s, idx) == SubSeq(s, 1, idx) \o SubSeq(s, idx + 2, Len(s))

\* what the cart section shows once the run has settled
CartInfo(c) == IF c = <<>> THEN {"EmptyCart"} ELSE {}

RECURSIVE OrderLines(_)
OrderLines(os) == IF os = <<>> THEN 0 ELSE Len(Head(os).items) + OrderLines(Tail(os))

TotalLines == Len(cart) + OrderLines(orders)

(***************************************************************************)
(* Initial state: initialize_data on a fresh session.                      *)
(***************************************************************************)
Init ==
    /\ menu_items = InitialMenu
    /\ orders = <<>>
    /\ order_id_counter = 1
    /\ cart = <<>>
    /\ outcome = {}

(***************************************************************************)
(* Page 1 rendered with no widget fired.                                   *)
(***************************************************************************)
ViewMenuPage ==
    /\ outcome' = IF available_menu_empty THEN {"NoItems"} ELSE CartInfo(cart)
    /\ UNCHANGED <<menu_items, orders, order_id_counter, cart>>

(***************************************************************************)
(* Add to Cart: position k of the select box, quantity q.                  *)
(***************************************************************************)
AddToCart(k, q) ==
    LET available_menu_df == get_available_menu IN
    /\ TotalLines < MaxLines                  \* bound of the model
    /\ ~available_menu_empty
    /\ k \in 1..Len(available_menu_df)
    /\ LET selected_item_name == available_menu_df[k].name IN
       IF selected_item_name # ""
       THEN /\ outcome' = {"Added"}
            /\ cart' = Append(cart,
                   cart_line(item_details(available_menu_df, selected_item_name),
                             selected_item_name, q))
       ELSE /\ outcome' = CartInfo(cart)
            /\ cart' = cart
    /\ UNCHANGED <<menu_items, orders, order_id_counter>>

(***************************************************************************)
(* The number input qty_<idx> reports new_qty.                             *)
(***************************************************************************)
QuantityEdit(idx, new_qty) ==
    /\ ~available_menu_empty
    /\ IF idx < Len(cart) /\ new_qty # cart[idx + 1].quantity
       THEN /\ outcome' = {"QuantityRerun"}
            /\ cart' = [cart EXCEPT ![idx + 1] = edited_line(cart[idx + 1], new_qty)]
       ELSE /\ outcome' = CartInfo(cart)
            /\ cart' = cart
    /\ UNCHANGED <<menu_items, orders, order_id_counter>>

(***************************************************************************)
(* The button remove_<idx> fired.                                          *)
(***************************************************************************)
RemoveLine(idx) ==
    /\ ~available_menu_empty
    /\ IF idx < Len(cart)
       THEN /\ outcome' = {"RemoveRerun"} \cup CartInfo(Pop(cart, idx))
            /\ cart' = Pop(cart, idx)
       ELSE /\ outcome' = CartInfo(cart)
            /\ cart' = cart
    /\ UNCHANGED <<menu_items, orders, order_id_counter>>

\* Place Order that does not advance the id counter
PlaceOrder_same_id ==
    /\ cart = <<>> \/ Len(orders) < MaxOrders   \* bound of the model
    /\ ~available_menu_empty
    /\ IF cart # <<>>
       THEN /\ outcome' = {"OrderPlaced"}
            /\ orders' = Append(orders, new_order(order_id_counter, cart))
            /\ order_id_counter' = order_id_counter
            /\ cart' = <<>>
       ELSE /\ outcome' = {"EmptyCart"}
            /\ UNCHANGED <<orders, order_id_counter, cart>>
    /\ UNCHANGED menu_items

\* Place Order without the test for an empty cart
PlaceOrder_unchecked ==
    /\ Len(orders) < MaxOrders                 \* bound of the model
    /\ ~available_menu_empty
    /\ orders' = Append(orders, new_order(order_id_counter, cart))
    /\ order_id_counter' = order_id_counter + 1
    /\ cart' = <<>>
    /\ outcome' = {"OrderPlaced"}
    /\ UNCHANGED menu_items

(***************************************************************************)
(* Place Order.                                                            *)
(***************************************************************************)
PlaceOrder ==
    /\ cart = <<>> \/ Len(orders) < MaxOrders   \* bound of the model
    /\ ~available_menu_empty
    /\ IF cart # <<>>
       THEN /\ outcome' = {"OrderPlaced"}
            /\ orders' = Append(orders, new_order(order_id_counter, cart))
            /\ order_id_counter' = order_id_counter + 1
            /\ cart' = <<>>
       ELSE /\ outcome' = {"EmptyCart"}
            /\ UNCHANGED <<orders, order_id_counter, cart>>
    /\ UNCHANGED menu_items

(***************************************************************************)
(* Update Status.                                                          *)
(***************************************************************************)
UpdateStatus(selected_order_id_update, new_status) ==
    /\ orders # <<>>
    /\ LET ix == order_index(selected_order_id_update) IN
       IF ix # {}
       THEN /\ outcome' = {"StatusUpdated"}
            /\ orders' = [i \in 1..Len(orders) |->
                            IF i \in ix THEN [orders[i] EXCEPT !.status = new_status]
                            ELSE orders[i]]
       ELSE /\ outcome' = {"OrderNotFound"}
            /\ orders' = orders
    /\ UNCHANGED <<menu_items, order_id_counter, cart>>

(***************************************************************************)
(* Save Menu Changes with EditedLists[e] in the editor.                    *)
(***************************************************************************)
SaveMenuChanges(e) ==
    LET edited_df == EditedLists[e] IN
    /\ IF HasDuplicateIds(edited_df)
       THEN /\ outcome' = {"DuplicateId"}
            /\ menu_items' = menu_items
       ELSE /\ outcome' = {"MenuUpdated"}
            /\ menu_items' = edited_df
    /\ UNCHANGED <<orders, order_id_counter, cart>>

(***************************************************************************)
(* Specification.                                                          *)
(***************************************************************************)
\* widget indices an event can carry: those of the cart's lines, and the one
\* past the end (the widget of a line that has just gone)
WidgetIdx == 0..Len(cart)
\* order ids the status form can be submitted with: those assigned so far
\* and the next one, which no order has yet
OrderIds == 1..order_id_counter
Edits == 1..Len(EditedLists)

Next ==
    \/ ViewMenuPage
    \/ \E k \in SelectPositions, q \in Quantities : AddToCart(k, q)
    \/ \E idx \in WidgetIdx, q \in Quantities : QuantityEdit(idx, q)
    \/ \E idx \in WidgetIdx : RemoveLine(idx)
    \/ PlaceOrder
    \/ \E oid \in OrderIds, s \in Statuses : UpdateStatus(oid, s)
    \/ \E e \in Edits : SaveMenuChanges(e)

Spec == Init /\ [][Next]_vars

(***************************************************************************)
(* Pricing on its own: the session starts with any cart of up to           *)
(* MaxCartLen lines of the initial menu, and is viewed and checked out.    *)
(***************************************************************************)
\* rows of the initial menu the priced carts are built from
PricingRows == {1, 4, 5}

PricingLines ==
    {cart_line(InitialMenu[r], InitialMenu[r].name, q) :
        r \in PricingRows, q \in Quantities}

PricingCarts == UNION {[1..n -> PricingLines] : n \in 0..MaxCartLen}

InitPricing ==
    /\ menu_items = InitialMenu
    /\ orders = <<>>
    /\ order_id_counter = 1
    /\ cart \in PricingCarts
    /\ outcome = {}

NextPricing == ViewMenuPage \/ PlaceOrder

SpecPricing == InitPricing /\ [][NextPricing]_vars

(***************************************************************************)
(* Properties.                                                             *)
(***************************************************************************)
Ids(df) == {df[i].id : i \in 1..Len(df)}

MaxOrderId(os) ==
    IF os = <<>> THEN 0
    ELSE CHOOSE m \in Ids(os) : \A n \in Ids(os) : n <= m

\* the discount rule as the specification words it, for a cart c
DiscountRule(c) ==
    LET s == SumSubtotal(c)
        d == calculate_total_savings(c)
    IN  /\ s > 50000 => d * 10 = s
        /\ s <= 50000 /\ Len(c) >= 3 => d * 20 = s
        /\ s <= 50000 /\ Len(c) < 3 => d = 0
        /\ final_amount(c) = s - d

\* C1: for every cart the discount is 10% of the subtotal when the subtotal
\* exceeds 500, else 5% when the cart has three or more lines, else 0; the
\* tiers never stack, a subtotal of exactly 500 gets no 10%, and the final
\* amount (the amount an order is placed for) is subtotal minus discount.
C1_DiscountTiers ==
    /\ DiscountRule(cart)
    /\ \A i \in 1..Len(orders) :
          /\ DiscountRule(orders[i].items)
          /\ orders[i].total = SumSubtotal(orders[i].items)
                                 - calculate_total_savings(orders[i].items)

\* an order placed for three lines worth more than 500: 10%, not 15%
C1_Witness ==
    /\ "OrderPlaced" \in outcome
    /\ Len(orders[1].items) >= 3
    /\ SumSubtotal(orders[1].items) > 50000
    /\ orders[1].total * 10 = SumSubtotal(orders[1].items) * 9

\* C2: order ids in the store are unique and strictly increasing in creation
\* order starting at 1; every Place Order on a non-empty cart appends an order
\* whose id is one more than the highest id assigned so far and leaves the
\* cart empty.
C2_OrderIds ==
    /\ \A i \in 1..Len(orders) :
          /\ i = 1 => orders[i].id = 1
          /\ \A j \in 1..Len(orders) : i < j => orders[i].id < orders[j].id
    /\ cart # <<>> =>
          ~ENABLED (/\ PlaceOrder
                    /\ ~(/\ Len(orders') = Len(orders) + 1
                         /\ orders'[Len(orders')].id = MaxOrderId(orders) + 1
                         /\ cart' = <<>>))

\* a second order has just been placed after cart edits and a menu save
C2_Witness ==
    /\ outcome = {"OrderPlaced"}
    /\ Len(orders) = 2
    /\ orders[2].id = 2
    /\ cart = <<>>
    /\ menu_items # InitialMenu

\* C3: Place Order on an empty cart reports the empty cart and changes
\* neither the order store, the id counter, the cart nor the menu catalog.
C3_EmptyCart ==
    cart = <<>> =>
       ~ENABLED (/\ PlaceOrder
                 /\ ~(/\ "EmptyCart" \in outcome'
                      /\ UNCHANGED <<orders, order_id_counter, cart, menu_items>>))

\* the empty cart reported right after an order was placed
C3_Witness ==
    /\ outcome = {"EmptyCart"}
    /\ cart = <<>>
    /\ Len(orders) = 1
    /\ order_id_counter = 2

\* C4: no two items of the catalog ever share an id; a save of a list with a
\* repeated id reports DuplicateId and leaves the catalog as it was, a save of
\* a list without one replaces the catalog by that list, and nothing else
\* changes the catalog.
C4_UniqueItemIds ==
    /\ [](Cardinality(Ids(menu_items)) = Len(menu_items))
    /\ [](\A e \in Edits :
             ~ENABLED (/\ SaveMenuChanges(e)
                       /\ ~(IF Cardinality(Ids(EditedLists[e])) < Len(EditedLists[e])
                            THEN menu_items' = menu_items /\ "DuplicateId" \in outcome'
                            ELSE menu_items' = EditedLists[e])))
    /\ [][menu_items' # menu_items =>
             \E e \in Edits : /\ SaveMenuChanges(e)
                              /\ Cardinality(Ids(EditedLists[e])) = Len(EditedLists[e])
         ]_vars

\* a save with a repeated id was rejected while an edited catalog was live
C4_Witness ==
    /\ outcome = {"DuplicateId"}
    /\ menu_items = EditedLists[2]

\* C5: an order, once created, keeps its id, its line items and its total and
\* stays in the store at its position; its status changes only by an Update
\* Status of that order to that status; a new order is appended last, Pending,
\* with the cart's lines and the cart's post-discount final amount.
C5_OrdersFrozen ==
    [][orders' # orders =>
          /\ Len(orders') >= Len(orders)
          /\ \A i \in 1..Len(orders) :
                /\ orders'[i].id = orders[i].id
                /\ orders'[i].items = orders[i].items
                /\ orders'[i].total = orders[i].total
                /\ orders'[i].status # orders[i].status =>
                      UpdateStatus(orders[i].id, orders'[i].status)
          /\ Len(orders') > Len(orders) =>
                /\ PlaceOrder
                /\ Len(orders') = Len(orders) + 1
                /\ orders'[Len(orders')].status = "Pending"
                /\ orders'[Len(orders')].items = cart
                /\ orders'[Len(orders')].total = final_amount(cart)
      ]_vars

\* a discounted first order, moved on to Ready, with a second order behind it
C5_Witness ==
    /\ Len(orders) = 2
    /\ orders[1].status = "Ready"
    /\ orders[1].total < SumSubtotal(orders[1].items)
    /\ orders[2].status = "Pending"

\* C6: every cart line has subtotal = unit price x quantity and quantity >= 1,
\* the unit price being the one the line carries.
C6_LineSubtotal ==
    \A i \in 1..Len(cart) :
        /\ cart[i].quantity >= 1
        /\ cart[i].subtotal = cart[i].price * cart[i].quantity

\* a quantity edit has just raised the second line to 2
C6_Witness ==
    /\ outcome = {"QuantityRerun"}
    /\ Len(cart) = 2
    /\ cart[2].quantity = 2
    /\ cart[2].subtotal = 2 * cart[2].price

\* the catalog's current price of item id, 0 when the catalog has no such item
CatalogPrice(id) ==
    LET rows == {i \in 1..Len(menu_items) : menu_items[i].id = id}
    IN  IF rows = {} THEN 0 ELSE menu_items[CHOOSE i \in rows : TRUE].price

\* C7: a menu save leaves every cart line as it was, and a later quantity edit
\* or checkout of a line uses the unit price the line captured when added.
C7_CartSnapshot ==
    /\ \A e \in Edits : ~ENABLED (SaveMenuChanges(e) /\ cart' # cart)
    /\ \A idx \in 0..(Len(cart) - 1), q \in Quantities :
          ~ENABLED (/\ QuantityEdit(idx, q)
                    /\ cart' # [cart EXCEPT ![idx + 1].quantity = q,
                                            ![idx + 1].subtotal = q * cart[idx + 1].price])
    /\ cart # <<>> =>
          ~ENABLED (/\ PlaceOrder
                    /\ ~(/\ orders'[Len(orders')].items = cart
                         /\ orders'[Len(orders')].total = final_amount(cart)))

\* a quantity edit of a line whose item has since been repriced in the catalog
C7_Witness ==
    /\ outcome = {"QuantityRerun"}
    /\ Len(cart) = 1
    /\ cart[1].quantity = 2
    /\ CatalogPrice(cart[1].id) # 0
    /\ CatalogPrice(cart[1].id) # cart[1].price
    /\ cart[1].subtotal = 2 * cart[1].price

\* C8: Update Status on an id in the store sets that order's status to the new
\* status whatever the current one (so it is possible for every order and
\* every status) and changes no other order; on an id not in the store it
\* reports OrderNotFound and leaves the store as it was.
C8_UpdateStatus ==
    /\ \A i \in 1..Len(orders), s \in Statuses :
          ENABLED (UpdateStatus(orders[i].id, s) /\ orders'[i].status = s)
    /\ \A oid \in OrderIds, s \in Statuses :
          ~ENABLED (/\ UpdateStatus(oid, s)
                    /\ ~(IF oid \in Ids(orders)
                         THEN /\ Len(orders') = Len(orders)
                              /\ \A i \in 1..Len(orders) :
                                    orders'[i] = IF orders[i].id = oid
                                                 THEN [orders[i] EXCEPT !.status = s]
                                                 ELSE orders[i]
                         ELSE /\ orders' = orders
                              /\ "OrderNotFound" \in outcome'))

\* the first of two orders was cancelled, the second is still Pending
C8_Witness ==
    /\ outcome = {"StatusUpdated"}
    /\ Len(orders) = 2
    /\ orders[1].status = "Cancelled"
    /\ orders[2].status = "Pending"

\* C9: removing a line or editing a quantity with an index outside
\* 0..len(cart)-1 fails with InvalidIndex and leaves the cart as it was; with an
\* index inside, the remove drops exactly that line and keeps the others in
\* order, and the edit changes only that line's quantity and subtotal.
C9_IndexChecked ==
    [][/\ \A idx \in WidgetIdx :
             RemoveLine(idx) =>
                IF idx < Len(cart)
                THEN /\ Len(cart') = Len(cart) - 1
                     /\ \A i \in 1..Len(cart') :
                           cart'[i] = IF i <= idx THEN cart[i] ELSE cart[i + 1]
                ELSE cart' = cart /\ "InvalidIndex" \in outcome'
       /\ \A idx \in WidgetIdx, q \in Quantities :
             QuantityEdit(idx, q) =>
                IF idx < Len(cart)
                THEN /\ Len(cart') = Len(cart)
                     /\ \A i \in 1..Len(cart) :
                           /\ i # idx + 1 => cart'[i] = cart[i]
                           /\ cart'[i].id = cart[i].id
                           /\ cart'[i].name = cart[i].name
                           /\ cart'[i].price = cart[i].price
                ELSE cart' = cart /\ "InvalidIndex" \in outcome'
      ]_vars

\* C10: every Add to Cart of the selected option with quantity q >= 1 appends
\* exactly one line, the existing lines unchanged, and the new line carries
\* the id, name and price of the selected item, which is in the catalog and
\* available.
C10_AddSelected ==
    [][\A k \in SelectPositions, q \in Quantities : AddToCart(k, q) =>
          LET selected == get_available_menu[k] IN
          /\ selected.available
          /\ \E i \in 1..Len(menu_items) : menu_items[i] = selected
          /\ cart' = Append(cart, [id |-> selected.id, name |-> selected.name,
                                   price |-> selected.price, quantity |-> q,
                                   subtotal |-> selected.price * q])
      ]_vars

====
